---- MODULE Spec2Model ----
(***************************************************************************)
(* Two-pointer algorithms of learn-go/algorithms/two_pointers:             *)
(*   threeSum          (three_sum.go)                                      *)
(*   removeNthFromEnd  (remove_nth_node_from_the_end_of_list.go)           *)
(*   isPalindrome      (is_palindromic.go)                                 *)
(* Each behaviour is one call of one of the three functions; the argument  *)
(* is chosen in Init and the function body is executed statement by        *)
(* statement.  Indices are 0-based as in the source; At/ByteAt translate   *)
(* to the 1-based TLA+ sequences.                                          *)
(***************************************************************************)
EXTENDS Integers, Sequences, FiniteSets, TLC

VARIABLES
    op,          \* the function being called
    pc,          \* position in the function body, "done" after return, "panic" on a run-time fault
    input,       \* threeSum: the caller's slice as it was at the call
    nums,        \* threeSum: the caller's slice (sorted in place by the call)
    result,      \* threeSum: result
    i,           \* loop counter i (threeSum line 14, removeNthFromEnd line 22)
    left,        \* left index (threeSum, isPalindrome)
    right,       \* right index (threeSum, isPalindrome)
    head,        \* removeNthFromEnd: parameter head
    n,           \* removeNthFromEnd: parameter n
    heapNext,    \* the heap: ListNode.next of every allocated node
    heapValue,   \* the heap: ListNode.value of every allocated node
    heap0,       \* the heap as it was at the call
    currentPtr,  \* removeNthFromEnd: the sentinel
    rightPtr,    \* removeNthFromEnd: lead pointer
    leftPtr,     \* removeNthFromEnd: trail pointer
    retHead,     \* removeNthFromEnd: returned pointer
    s,           \* isPalindrome: parameter s (a Go string, indexed by byte)
    retBool,     \* isPalindrome: returned value
    run,         \* 1 during the first call, 2 during the call repeated on a copy of the input
    steps,       \* the number of steps the current call has taken
    first        \* what the first call returned, once it has been repeated

vars == <<op, pc, input, nums, result, i, left, right, head, n, heapNext,
          heapValue, heap0, currentPtr, rightPtr, leftPtr, retHead, s, retBool,
          run, steps, first>>

tsVars  == <<input, nums, result>>
rmVars  == <<head, n, heapNext, heapValue, heap0, currentPtr, rightPtr, leftPtr, retHead>>
palVars == <<s, retBool>>

----------------------------------------------------------------------------
(* Bounds of the model *)

\* width in bits of the modelled int (Go's int is 32 or 64 bits wide; the
\* model keeps the two's-complement wrap-around at a reduced width)
IntBits == 5
\* longest slice passed to threeSum, besides the test cases of main
MaxLen == 4
\* slice elements are drawn from -MaxVal..MaxVal and the two extreme ints
MaxVal == 2
\* longest list passed to removeNthFromEnd
MaxNodes == 5
\* node values are drawn from 1..MaxNodeVal
MaxNodeVal == 2
\* n is drawn from -1 .. MaxNodes + MaxOver
MaxOver == 2
\* longest string passed to isPalindrome, besides the examples
MaxStr == 5

----------------------------------------------------------------------------
(* The steps of a call *)

\* the most steps a call on the given argument is allowed before the model
\* stops following it
StepBound ==
    CASE op = "threeSum"         -> (Len(input) + 2) * (2 * Len(input) + 4)
      [] op = "removeNthFromEnd" -> 2 * Cardinality(DOMAIN heap0.next) + 10
      [] op = "isPalindrome"     -> Len(s) + 3

\* the call takes one more step
Tick == steps <= StepBound /\ steps' = steps + 1

----------------------------------------------------------------------------
(* Go int arithmetic *)

MinInt == -(2 ^ (IntBits - 1))
MaxInt == (2 ^ (IntBits - 1)) - 1

\* two's-complement wrap-around of an int result
Wrap(x) == ((x - MinInt) % (2 ^ IntBits)) + MinInt

\* a + b on Go ints
AddInt(a, b) == Wrap(a + b)

----------------------------------------------------------------------------
(* threeSum *)

\* an insertion that drops a value already present (a sort that also
\* removes duplicates)
RECURSIVE Insert_DropEqual(_, _)
Insert_DropEqual(x, sq) ==
    IF sq = <<>> THEN <<x>>
    ELSE IF x = Head(sq) THEN sq
    ELSE IF x < Head(sq) THEN <<x>> \o sq
    ELSE <<Head(sq)>> \o Insert_DropEqual(x, Tail(sq))

RECURSIVE Insert(_, _)
Insert(x, sq) ==
    IF sq = <<>> THEN <<x>>
    ELSE IF x <= Head(sq) THEN <<x>> \o sq
    ELSE <<Head(sq)>> \o Insert(x, Tail(sq))

\* sort.Ints: the elements of sq in increasing order
RECURSIVE SortInts(_)
SortInts(sq) ==
    IF sq = <<>> THEN <<>> ELSE Insert(Head(sq), SortInts(Tail(sq)))

\* nums[k] is a legal index expression
InRange(k) == 0 <= k /\ k < Len(nums)

\* nums[k]
At(k) == nums[k + 1]

\* v := nums[i]
v == At(i)

\* the anchor loop's bound computed in unsigned arithmetic: i < uint(n-2)
OuterGuard_Unsigned(k) == k < (Len(nums) - 2) % (2 ^ IntBits)

\* loop condition of the anchor loop: i < n-2
OuterGuard(k) == k < Len(nums) - 2

\* the early break taken on a zero anchor as well: if v >= 0 { break }
BreakEarly_NonNegative(x) == x >= 0

\* if v > 0 { break }
BreakEarly(x) == x > 0

\* the duplicate-anchor skip left out
DupAnchor_Never(k) == FALSE

\* if i > 0 && nums[i] == nums[i-1] { continue }
DupAnchor(k) == k > 0 /\ At(k) = At(k - 1)

\* total := nums[left] + nums[right] + v
Total(l, r, x) == AddInt(AddInt(At(l), At(r)), x)

\* the triplet built with the anchor last: []int{nums[left], nums[right], v}
Triplet_AnchorLast(l, r, x) == <<At(l), At(r), x>>

\* []int{v, nums[left], nums[right]}
Triplet(l, r, x) == <<x, At(l), At(r)>>

\* for left+1 < right && nums[left] == nums[left+1]
SkipLeftCond(l, r) == l + 1 < r /\ At(l) = At(l + 1)

\* for left < right-1 && nums[right] == nums[right-1]
SkipRightCond(l, r) == l < r - 1 /\ At(r) = At(r - 1)

\* the test cases of main
TestCases ==
    { <<-1, 0, 1, 2, -1, -4>>,
      <<0, 0, 0>>,
      <<>>,
      <<1, 2, -2, -1>>,
      <<-2, 0, 1, 1, 2>>,
      <<-4, -2, -2, -2, 0, 1, 2, 2, 2, 3, 3, 4, 4, 6, 6>>,
      <<-5, 1, 10, -1, -2, 3, 4, -3, 0>>,
      <<-10, 5, 2, 4, -4, -5, 0, 0>> }

Vals == (-MaxVal .. MaxVal) \cup {MinInt, MaxInt}

Slices == UNION { [1..len -> Vals] : len \in 0..MaxLen } \cup TestCases

\* result kept across calls (a package-level slice that is never reset)
TS_Sort_KeepResult ==
    /\ op = "threeSum" /\ pc = "ts_sort"
    /\ Tick
    /\ nums' = SortInts(nums)
    /\ result' = result
    /\ i' = 0
    /\ pc' = "ts_outer"
    /\ UNCHANGED <<op, run, first, input, left, right, rmVars, palVars>>

\* sort.Ints(nums); n := len(nums); result := [][]int{}; i := 0
TS_Sort ==
    /\ op = "threeSum" /\ pc = "ts_sort"
    /\ Tick
    /\ nums' = SortInts(nums)
    /\ result' = <<>>
    /\ i' = 0
    /\ pc' = "ts_outer"
    /\ UNCHANGED <<op, run, first, input, left, right, rmVars, palVars>>

\* the anchor loop written with its i++ at the end of the body, which the
\* continue of the duplicate-anchor skip jumps over
TS_Outer_ContinueNoIncrement ==
    /\ op = "threeSum" /\ pc = "ts_outer"
    /\ Tick
    /\ IF ~OuterGuard(i)
         THEN pc' = "done" /\ UNCHANGED <<i, left, right>>
       ELSE IF ~InRange(i)
         THEN pc' = "panic" /\ UNCHANGED <<i, left, right>>
       ELSE IF BreakEarly(v)
         THEN pc' = "done" /\ UNCHANGED <<i, left, right>>
       ELSE IF DupAnchor(i)
         THEN pc' = "ts_outer" /\ UNCHANGED <<i, left, right>>
       ELSE /\ left' = i + 1
            /\ right' = Len(nums) - 1
            /\ pc' = "ts_scan"
            /\ UNCHANGED i
    /\ UNCHANGED <<op, run, first, tsVars, rmVars, palVars>>

\* one evaluation of the anchor loop's header and of the statements before
\* the scan: lines 14-24
TS_Outer ==
    /\ op = "threeSum" /\ pc = "ts_outer"
    /\ Tick
    /\ IF ~OuterGuard(i)
         THEN pc' = "done" /\ UNCHANGED <<i, left, right>>
       ELSE IF ~InRange(i)
         THEN pc' = "panic" /\ UNCHANGED <<i, left, right>>
       ELSE IF BreakEarly(v)
         THEN pc' = "done" /\ UNCHANGED <<i, left, right>>
       ELSE IF DupAnchor(i)
         THEN pc' = "ts_outer" /\ i' = i + 1 /\ UNCHANGED <<left, right>>
       ELSE /\ left' = i + 1
            /\ right' = Len(nums) - 1
            /\ pc' = "ts_scan"
            /\ UNCHANGED i
    /\ UNCHANGED <<op, run, first, tsVars, rmVars, palVars>>

\* one evaluation of the scan loop's header and of the if/else chain up to
\* the append: lines 25-28 and 37-41
TS_Scan ==
    /\ op = "threeSum" /\ pc = "ts_scan"
    /\ Tick
    /\ IF ~(left < right)
         THEN pc' = "ts_outer" /\ i' = i + 1 /\ UNCHANGED <<left, right, result>>
       ELSE IF ~(InRange(left) /\ InRange(right))
         THEN pc' = "panic" /\ UNCHANGED <<i, left, right, result>>
       ELSE IF Total(left, right, v) = 0
         THEN /\ result' = Append(result, Triplet(left, right, v))
              /\ pc' = "ts_skipl"
              /\ UNCHANGED <<i, left, right>>
       ELSE IF Total(left, right, v) < 0
         THEN left' = left + 1 /\ UNCHANGED <<pc, i, right, result>>
       ELSE right' = right - 1 /\ UNCHANGED <<pc, i, left, result>>
    /\ UNCHANGED <<op, run, first, input, nums, rmVars, palVars>>

\* lines 29-32: one step of the left duplicate skip, or the left++ after it
TS_SkipLeft ==
    /\ op = "threeSum" /\ pc = "ts_skipl"
    /\ Tick
    /\ IF left + 1 < right /\ ~(InRange(left) /\ InRange(left + 1))
         THEN pc' = "panic" /\ UNCHANGED left
       ELSE IF SkipLeftCond(left, right)
         THEN left' = left + 1 /\ UNCHANGED pc
       ELSE left' = left + 1 /\ pc' = "ts_skipr"
    /\ UNCHANGED <<op, run, first, i, right, tsVars, rmVars, palVars>>

\* lines 33-36: one step of the right duplicate skip, or the right-- after it
TS_SkipRight ==
    /\ op = "threeSum" /\ pc = "ts_skipr"
    /\ Tick
    /\ IF left < right - 1 /\ ~(InRange(right) /\ InRange(right - 1))
         THEN pc' = "panic" /\ UNCHANGED right
       ELSE IF SkipRightCond(left, right)
         THEN right' = right - 1 /\ UNCHANGED pc
       ELSE right' = right - 1 /\ pc' = "ts_scan"
    /\ UNCHANGED <<op, run, first, i, left, tsVars, rmVars, palVars>>

----------------------------------------------------------------------------
(* The heap of ListNode *)

\* the nil pointer
Nil == 0

\* the nodes of a list of len nodes are allocated at addresses 1..len
\* front to back (as main builds its list) or back to front
Layouts == {"forward", "backward"}

NodeAt(layout, len, pos) == IF layout = "forward" THEN pos ELSE len + 1 - pos

\* next field of the node at address a of a list of len nodes
InitNext(layout, len) ==
    [a \in 1..len |->
        IF layout = "forward"
          THEN (IF a = len THEN Nil ELSE a + 1)
          ELSE (IF a = 1 THEN Nil ELSE a - 1)]

\* &ListNode{...}: the address of a freshly allocated node
NewNode == Cardinality(DOMAIN heapNext) + 1

\* the nodes reached from pointer p by following nxt, at most fuel of them
RECURSIVE Chain(_, _, _)
Chain(p, nxt, fuel) ==
    IF p = Nil \/ fuel = 0 THEN <<>>
    ELSE <<p>> \o Chain(nxt[p], nxt, fuel - 1)

\* the list at p ends in nil
Acyclic(p, nxt) ==
    Len(Chain(p, nxt, Cardinality(DOMAIN nxt) + 1)) <= Cardinality(DOMAIN nxt)

\* the list at p as the sequence of its nodes
ListOf(p, nxt) == Chain(p, nxt, Cardinality(DOMAIN nxt) + 1)

----------------------------------------------------------------------------
(* removeNthFromEnd *)

\* the guard without its test of n: if head == nil { return head }
EntryGuard_NilOnly == head = Nil

\* if head == nil || n <= 0 { return head }
EntryGuard == head = Nil \/ n <= 0

\* lines 14-20: the guard, the sentinel and the two pointers
RM_Entry ==
    /\ op = "removeNthFromEnd" /\ pc = "rm_entry"
    /\ Tick
    /\ IF EntryGuard
         THEN /\ retHead' = head
              /\ pc' = "done"
              /\ UNCHANGED <<heapNext, heapValue, currentPtr, rightPtr, leftPtr, i>>
         ELSE /\ heapNext' = [a \in DOMAIN heapNext \cup {NewNode} |->
                                IF a = NewNode THEN head ELSE heapNext[a]]
              /\ heapValue' = [a \in DOMAIN heapValue \cup {NewNode} |->
                                IF a = NewNode THEN 0 ELSE heapValue[a]]
              /\ currentPtr' = NewNode
              /\ rightPtr' = NewNode
              /\ leftPtr' = NewNode
              /\ i' = 0
              /\ pc' = "rm_lead"
              /\ UNCHANGED retHead
    /\ UNCHANGED <<op, run, first, left, right, head, n, heap0, tsVars, palVars>>

\* the lead pointer advanced once too often: i <= n
LeadGuard_OffByOne(k) == k <= n

\* the first loop's condition: i < n
LeadGuard(k) == k < n

\* the first loop without its test of rightPtr.next
LeadAtEnd_Never(p) == FALSE

\* if rightPtr.next == nil { return head }
LeadAtEnd(p) == heapNext[p] = Nil

\* lines 22-28: one evaluation of the first loop's header and body
RM_Lead ==
    /\ op = "removeNthFromEnd" /\ pc = "rm_lead"
    /\ Tick
    /\ IF ~LeadGuard(i)
         THEN pc' = "rm_lockstep" /\ UNCHANGED <<i, rightPtr, retHead>>
       ELSE IF rightPtr = Nil
         THEN pc' = "panic" /\ UNCHANGED <<i, rightPtr, retHead>>
       ELSE IF LeadAtEnd(rightPtr)
         THEN retHead' = head /\ pc' = "done" /\ UNCHANGED <<i, rightPtr>>
       ELSE /\ rightPtr' = heapNext[rightPtr]
            /\ i' = i + 1
            /\ UNCHANGED <<pc, retHead>>
    /\ UNCHANGED <<op, run, first, left, right, head, n, heapNext, heapValue, heap0,
                   currentPtr, leftPtr, tsVars, palVars>>

\* the second loop stopped one node early: rightPtr.next.next != nil
LockstepGuard_StopsEarly(p) == heapNext[p] # Nil /\ heapNext[heapNext[p]] # Nil

\* the second loop's condition: rightPtr.next != nil
LockstepGuard(p) == heapNext[p] # Nil

\* lines 30-33: one evaluation of the second loop's header and body
RM_Lockstep ==
    /\ op = "removeNthFromEnd" /\ pc = "rm_lockstep"
    /\ Tick
    /\ IF rightPtr = Nil
         THEN pc' = "panic" /\ UNCHANGED <<rightPtr, leftPtr>>
       ELSE IF ~LockstepGuard(rightPtr)
         THEN pc' = "rm_unlink" /\ UNCHANGED <<rightPtr, leftPtr>>
       ELSE IF leftPtr = Nil
         THEN pc' = "panic" /\ UNCHANGED <<rightPtr, leftPtr>>
       ELSE /\ rightPtr' = heapNext[rightPtr]
            /\ leftPtr' = heapNext[leftPtr]
            /\ UNCHANGED pc
    /\ UNCHANGED <<op, run, first, i, left, right, head, n, heapNext, heapValue, heap0,
                   currentPtr, retHead, tsVars, palVars>>

\* the right-hand side of leftPtr.next = leftPtr.next.next
UnlinkTarget(p) == heapNext[heapNext[p]]

\* the old head returned instead of the sentinel's successor: return head
Returned_Head(nxt) == head

\* return currentPtr.next
Returned(nxt) == nxt[currentPtr]

\* the unlink that also clears the removed node's link:
\* removed := leftPtr.next; leftPtr.next = removed.next; removed.next = nil
RM_Unlink_ClearsRemoved ==
    /\ op = "removeNthFromEnd" /\ pc = "rm_unlink"
    /\ Tick
    /\ IF leftPtr = Nil \/ heapNext[leftPtr] = Nil
         THEN pc' = "panic" /\ UNCHANGED <<heapNext, retHead>>
         ELSE /\ heapNext' = [heapNext EXCEPT ![leftPtr] = UnlinkTarget(leftPtr),
                                              ![heapNext[leftPtr]] = Nil]
              /\ retHead' = Returned(heapNext')
              /\ pc' = "done"
    /\ UNCHANGED <<op, run, first, i, left, right, head, n, heapValue, heap0, currentPtr,
                   rightPtr, leftPtr, tsVars, palVars>>

\* lines 35-36: the unlink and the return
RM_Unlink ==
    /\ op = "removeNthFromEnd" /\ pc = "rm_unlink"
    /\ Tick
    /\ IF leftPtr = Nil \/ heapNext[leftPtr] = Nil
         THEN pc' = "panic" /\ UNCHANGED <<heapNext, retHead>>
         ELSE /\ heapNext' = [heapNext EXCEPT ![leftPtr] = UnlinkTarget(leftPtr)]
              /\ retHead' = Returned(heapNext')
              /\ pc' = "done"
    /\ UNCHANGED <<op, run, first, i, left, right, head, n, heapValue, heap0, currentPtr,
                   rightPtr, leftPtr, tsVars, palVars>>

----------------------------------------------------------------------------
(* isPalindrome *)

\* the bytes strings are made of
Bytes == {"a", "A", "b"}

\* the examples of is_palindromic.go
Examples == { <<"r", "a", "c", "e", "c", "a", "r">>,
              <<"a", "b", "a", "b">>,
              <<"m", "a", "d", "a", "m">> }

Strings == UNION { [1..len -> Bytes] : len \in 0..MaxStr } \cup Examples

\* s[k]
ByteAt(k) == s[k + 1]

\* s[k] is a legal index expression
InStr(k) == 0 <= k /\ k < Len(s)

\* left := 0; right := len(s) - 1
PAL_Entry ==
    /\ op = "isPalindrome" /\ pc = "pal_entry"
    /\ Tick
    /\ left' = 0
    /\ right' = Len(s) - 1
    /\ pc' = "pal_loop"
    /\ UNCHANGED <<op, run, first, i, tsVars, rmVars, palVars>>

\* the loop condition: left < right
PalGuard(l, r) == l < r

\* ASCII case folding of a byte
Fold(b) == IF b = "A" THEN "a" ELSE b

\* the comparison made case-insensitive
Mismatch_FoldCase(l, r) == Fold(ByteAt(l)) # Fold(ByteAt(r))

\* if s[left] != s[right]
Mismatch(l, r) == ByteAt(l) # ByteAt(r)

\* lines 8-17: one evaluation of the loop's header and body, or the final return
PAL_Loop ==
    /\ op = "isPalindrome" /\ pc = "pal_loop"
    /\ Tick
    /\ IF ~PalGuard(left, right)
         THEN retBool' = TRUE /\ pc' = "done" /\ UNCHANGED <<left, right>>
       ELSE IF ~(InStr(left) /\ InStr(right))
         THEN pc' = "panic" /\ UNCHANGED <<left, right, retBool>>
       ELSE IF Mismatch(left, right)
         THEN retBool' = FALSE /\ pc' = "done" /\ UNCHANGED <<left, right>>
       ELSE /\ left' = left + 1
            /\ right' = right - 1
            /\ UNCHANGED <<pc, retBool>>
    /\ UNCHANGED <<op, run, first, i, s, tsVars, rmVars>>

----------------------------------------------------------------------------
(* The calls *)

\* the list 1 -> 2 -> 3 -> 4 -> 5 built by main
MainList == [a \in 1..5 |-> a]

NodeValues(len) == [1..len -> 1..MaxNodeVal] \cup (IF len = 5 THEN {MainList} ELSE {})

InitThreeSum ==
    /\ op = "threeSum" /\ pc = "ts_sort"
    /\ input \in Slices
    /\ nums = input
    /\ result = <<>>
    /\ head = Nil /\ n = 0
    /\ heapNext = <<>> /\ heapValue = <<>>
    /\ s = <<>>

InitRemove ==
    /\ op = "removeNthFromEnd" /\ pc = "rm_entry"
    /\ input = <<>> /\ nums = <<>> /\ result = <<>>
    /\ \E len \in 0..MaxNodes, layout \in Layouts :
          /\ head = (IF len = 0 THEN Nil ELSE NodeAt(layout, len, 1))
          /\ heapNext = InitNext(layout, len)
          /\ heapValue \in NodeValues(len)
    /\ n \in -1 .. (MaxNodes + MaxOver)
    /\ s = <<>>

InitPalindrome ==
    /\ op = "isPalindrome" /\ pc = "pal_entry"
    /\ input = <<>> /\ nums = <<>> /\ result = <<>>
    /\ head = Nil /\ n = 0
    /\ heapNext = <<>> /\ heapValue = <<>>
    /\ s \in Strings

\* what a call has returned: the triplets, the returned list (its nodes and
\* their values) and the boolean
Outcome ==
    [ triplets |-> result,
      nodes    |-> ListOf(retHead, heapNext),
      values   |-> [k \in 1..Len(ListOf(retHead, heapNext)) |->
                      heapValue[ListOf(retHead, heapNext)[k]]],
      bool     |-> retBool ]

\* the caller repeats the call on an unmodified copy of the same input: the
\* slice and the heap are as they were at the first call, the locals of the
\* function are whatever the first call left behind
CallAgain ==
    /\ pc = "done" /\ run = 1
    /\ run' = 2
    /\ steps' = 0
    /\ first' = Outcome
    /\ nums' = input
    /\ heapNext' = heap0.next
    /\ heapValue' = heap0.value
    /\ pc' = CASE op = "threeSum" -> "ts_sort"
             [] op = "removeNthFromEnd" -> "rm_entry"
             [] op = "isPalindrome" -> "pal_entry"
    /\ UNCHANGED <<op, input, result, i, left, right, head, n, heap0,
                   currentPtr, rightPtr, leftPtr, retHead, s, retBool>>

Init ==
    /\ (InitThreeSum \/ InitRemove \/ InitPalindrome)
    /\ run = 1
    /\ steps = 0
    /\ first = [triplets |-> <<>>, nodes |-> <<>>, values |-> <<>>, bool |-> FALSE]
    /\ heap0 = [next |-> heapNext, value |-> heapValue]
    /\ i = 0 /\ left = 0 /\ right = 0
    /\ currentPtr = Nil /\ rightPtr = Nil /\ leftPtr = Nil
    /\ retHead = Nil
    /\ retBool = FALSE

Next ==
    \/ TS_Sort
    \/ TS_Outer
    \/ TS_Scan
    \/ TS_SkipLeft
    \/ TS_SkipRight
    \/ RM_Entry
    \/ RM_Lead
    \/ RM_Lockstep
    \/ RM_Unlink
    \/ PAL_Entry
    \/ PAL_Loop
    \/ CallAgain

Spec == Init /\ [][Next]_vars

----------------------------------------------------------------------------
(* Properties of threeSum *)

\* the index sets {a, b, c} of three pairwise distinct positions of sq
Positions3(sq) ==
    { <<a, b, c>> \in (1..Len(sq)) \X (1..Len(sq)) \X (1..Len(sq)) : a < b /\ b < c }

\* the value multisets (as increasing triples) of all zero-sum triplets of sq
ZeroTriples(sq) ==
    { SortInts(<<sq[p[1]], sq[p[2]], sq[p[3]]>>) :
        p \in { q \in Positions3(sq) : sq[q[1]] + sq[q[2]] + sq[q[3]] = 0 } }

\* the value multisets of the returned triplets
Returned3 == { SortInts(result[k]) : k \in 1..Len(result) }

\* t is built from the values at three pairwise distinct positions of nums
FromDistinctPositions(t) ==
    \E a, b, c \in 1..Len(nums) :
        /\ a # b /\ a # c /\ b # c
        /\ t = <<nums[a], nums[b], nums[c]>>

\* no sum of three elements of sq leaves the range of int
NoOverflow(sq) ==
    \A p \in Positions3(sq) :
        LET sum == sq[p[1]] + sq[p[2]] + sq[p[3]]
        IN  MinInt <= sum /\ sum <= MaxInt

\* C1: every triplet returned by threeSum sums to exactly zero and is built
\* from the values at three pairwise distinct positions of the sorted input.
C1_SumZeroDistinct ==
    op = "threeSum" =>
        \A k \in 1..Len(result) :
            /\ result[k][1] + result[k][2] + result[k][3] = 0
            /\ FromDistinctPositions(result[k])

\* C2: the result of threeSum contains no two triplets that are
\* value-permutations of each other: each multiset of three values appears
\* at most once, however many index combinations produce it.
C2_NoValuePermutations ==
    op = "threeSum" =>
        \A a, b \in 1..Len(result) :
            a < b => SortInts(result[a]) # SortInts(result[b])

\* threeSum has returned two or more triplets, one of which is produced by
\* several index combinations of the input
C2_Witness ==
    /\ op = "threeSum" /\ pc = "done"
    /\ Len(result) >= 2
    /\ \E k \in 1..Len(result) :
          Cardinality({ p \in Positions3(nums) :
              <<nums[p[1]], nums[p[2]], nums[p[3]]>> = result[k] }) >= 2

\* C3: threeSum finds all unique zero-sum triplets: the set of value
\* multisets it returns equals the set of all multisets of three values at
\* pairwise distinct positions of the input that sum to zero.
C3_AllUniqueTriplets ==
    (op = "threeSum" /\ pc = "done") => Returned3 = ZeroTriples(input)

\* C4: for every input slice with fewer than 3 elements threeSum returns an
\* empty result and never fails: no index is out of range at any step and
\* the result is empty throughout.
C4_ShortInputEmpty ==
    (op = "threeSum" /\ Len(input) < 3) => (pc # "panic" /\ result = <<>>)

\* threeSum has returned on a two-element slice whose first element, once
\* sorted, could be an anchor
C4_Witness ==
    /\ op = "threeSum" /\ pc = "done"
    /\ Len(input) = 2
    /\ nums[1] <= 0
    /\ result = <<>>

\* C5: for every input consisting only of zeros with length at least 3,
\* threeSum returns exactly one triplet, [0,0,0].
C5_AllZeros ==
    (/\ op = "threeSum" /\ pc = "done"
     /\ Len(input) >= 3
     /\ \A k \in 1..Len(input) : input[k] = 0)
        => result = << <<0, 0, 0>> >>

\* threeSum has returned [[0,0,0]] on four zeros
C5_Witness ==
    /\ op = "threeSum" /\ pc = "done"
    /\ input = <<0, 0, 0, 0>>
    /\ result = << <<0, 0, 0>> >>

\* On inputs none of whose three-element sums leaves the range of int, the
\* returned triplets sum to zero and are exactly the zero-sum triplets.
NoOverflow_ExactTriplets ==
    (op = "threeSum" /\ NoOverflow(input)) =>
        /\ \A k \in 1..Len(result) : result[k][1] + result[k][2] + result[k][3] = 0
        /\ (pc = "done" => Returned3 = ZeroTriples(input))

\* On every input the sum of a returned triplet, computed on int, is zero.
Wrapped_SumZero ==
    op = "threeSum" =>
        \A k \in 1..Len(result) :
            AddInt(AddInt(result[k][1], result[k][2]), result[k][3]) = 0

----------------------------------------------------------------------------
(* Properties of removeNthFromEnd *)

\* the list passed to removeNthFromEnd, as the sequence of its nodes
list0 == ListOf(head, heap0.next)

\* sq without its k-th element
RemoveAt(sq, k) == SubSeq(sq, 1, k - 1) \o SubSeq(sq, k + 1, Len(sq))

\* the values held by the nodes sq
ValuesOf(sq) == [k \in 1..Len(sq) |-> heapValue[sq[k]]]

\* no node of the caller's list has a changed link or value
ListUntouched ==
    \A a \in DOMAIN heap0.next :
        heapNext[a] = heap0.next[a] /\ heapValue[a] = heap0.value[a]

\* no node of the caller's list has a changed value
ValuesUntouched ==
    \A a \in DOMAIN heap0.value : heapValue[a] = heap0.value[a]

\* C6: for every acyclic list of length L >= 1 and every n with 1 <= n <= L,
\* removeNthFromEnd returns the list whose node sequence is the original
\* sequence with exactly the node at position L-n+1 from the front removed,
\* the other nodes kept in order and holding their values.
C6_RemovesNthFromEnd ==
    (/\ op = "removeNthFromEnd" /\ pc = "done"
     /\ 1 <= n /\ n <= Len(list0))
        => /\ ListOf(retHead, heapNext) = RemoveAt(list0, Len(list0) - n + 1)
           /\ Len(ListOf(retHead, heapNext)) = Len(list0) - 1
           /\ ValuesUntouched

\* removeNthFromEnd(1->2->3->4->5, 2) has returned 1->2->3->5
C6_Witness ==
    /\ op = "removeNthFromEnd" /\ pc = "done"
    /\ n = 2
    /\ [k \in 1..Len(list0) |-> heap0.value[list0[k]]] = <<1, 2, 3, 4, 5>>
    /\ ValuesOf(ListOf(retHead, heapNext)) = <<1, 2, 3, 5>>

\* C7: when head is nil, or n <= 0, or n is greater than the list's length,
\* removeNthFromEnd returns the original head and leaves the list unchanged
\* node for node (no link and no value is modified); it does not fail.
C7_NoOp ==
    (/\ op = "removeNthFromEnd"
     /\ (head = Nil \/ n <= 0 \/ n > Len(list0)))
        => /\ pc # "panic"
           /\ ListUntouched
           /\ (pc = "done" => (retHead = head /\ ListOf(retHead, heapNext) = list0))

\* removeNthFromEnd has returned on a list of two or more nodes with n
\* greater than its length, after the lead pointer ran to the last node
C7_Witness ==
    /\ op = "removeNthFromEnd" /\ pc = "done"
    /\ Len(list0) >= 2
    /\ n > Len(list0)
    /\ rightPtr = list0[Len(list0)]
    /\ retHead = head

C9_NoCycleNoNilDeref ==
    op = "removeNthFromEnd" =>
        /\ pc # "panic"
        /\ (pc \in {"rm_lead", "rm_lockstep", "rm_unlink"}
               => (rightPtr # Nil /\ leftPtr # Nil))
        /\ (pc = "rm_unlink" => heapNext[leftPtr] # Nil)
        /\ (pc = "done" => Acyclic(retHead, heapNext))

\* removeNthFromEnd has unlinked an interior node after both loops ran
C9_Witness ==
    /\ op = "removeNthFromEnd" /\ pc = "done"
    /\ 1 < n /\ n < Len(list0)
    /\ leftPtr # currentPtr
    /\ Len(ListOf(retHead, heapNext)) = Len(list0) - 1

----------------------------------------------------------------------------
(* Properties of isPalindrome *)

\* s reads the same forward and backward, byte by byte
Symmetric(sq) == \A k \in 0 .. Len(sq) - 1 : sq[k + 1] = sq[Len(sq) - k]

\* C10: isPalindrome(s) returns true exactly when s[k] = s[len-1-k] for
\* every k, by raw element equality, and false otherwise; it does not fail.
\* The empty and the one-element sequences return true.
C10_Palindrome ==
    op = "isPalindrome" =>
        /\ pc # "panic"
        /\ (pc = "done" => (retBool = Symmetric(s)))
        /\ ((pc = "done" /\ Len(s) <= 1) => retBool = TRUE)

\* isPalindrome has returned false on a string that is a palindrome only
\* up to case
C10_Witness ==
    /\ op = "isPalindrome" /\ pc = "done"
    /\ s = <<"a", "b", "b", "A">>
    /\ retBool = FALSE

----------------------------------------------------------------------------
(* Properties of repeated calls *)

\* C11: re-running any of the three operations on an unmodified copy of the
\* same input yields the same result as the first run (and fails no more
\* than the first run did).
C11_Idempotent ==
    run = 2 => (pc # "panic" /\ (pc = "done" => Outcome = first))

\* threeSum, repeated on a copy of an unsorted input, has again returned the
\* two or more triplets of the first call
C11_Witness ==
    /\ op = "threeSum" /\ run = 2 /\ pc = "done"
    /\ input # nums
    /\ Len(result) >= 2
    /\ first.triplets = result

----------------------------------------------------------------------------
(* Frame of threeSum *)

\* the number of positions of sq holding x
Count(sq, x) == Cardinality({ k \in 1..Len(sq) : sq[k] = x })

\* sq is in ascending order
Ascending(sq) == \A k \in 1 .. Len(sq) - 1 : sq[k] <= sq[k + 1]

\* C12: after threeSum returns, the caller's slice holds exactly the same
\* multiset of values as before the call, arranged in ascending order; no
\* value is added, dropped or altered and its length is unchanged.
C12_SliceSortedPermutation ==
    (op = "threeSum" /\ pc = "done") =>
        /\ Len(nums) = Len(input)
        /\ Ascending(nums)
        /\ \A x \in Vals \cup { input[k] : k \in 1..Len(input) }
                         \cup { nums[k] : k \in 1..Len(nums) } :
               Count(nums, x) = Count(input, x)

\* threeSum has returned on an unsorted slice with a repeated value, which
\* is now sorted
C12_Witness ==
    /\ op = "threeSum" /\ pc = "done"
    /\ ~Ascending(input)
    /\ \E x \in Vals : Count(input, x) >= 2
    /\ Ascending(nums)
    /\ result # <<>>

----------------------------------------------------------------------------
(* The two pointers of removeNthFromEnd *)

\* the number of nodes from p to the terminal, p included
Dist(p) == Len(ListOf(p, heapNext))

\* how many nodes the lead pointer is ahead of the trail pointer
Gap == Dist(leftPtr) - Dist(rightPtr)

\* rightPtr is reached from leftPtr in exactly Gap steps
LeadAhead ==
    /\ Gap >= 0
    /\ ListOf(leftPtr, heapNext)[Gap + 1] = rightPtr

\* C13: with 1 <= n <= length, the lead pointer is i nodes ahead of the
\* sentinel during the first loop and exactly n nodes ahead of the trail
\* pointer after it; the gap of n holds at every step of the lockstep loop,
\* and when the loop exits (rightPtr.next is nil) leftPtr.next is the n-th
\* node from the end.
C13_GapInvariant ==
    (/\ op = "removeNthFromEnd"
     /\ 1 <= n /\ n <= Len(list0))
        => /\ (pc = "rm_lead" =>
                 (leftPtr = currentPtr /\ i <= n /\ Gap = i /\ LeadAhead))
           /\ (pc = "rm_lockstep" => (Gap = n /\ LeadAhead))
           /\ (pc = "rm_unlink" =>
                 /\ Gap = n /\ LeadAhead
                 /\ heapNext[rightPtr] = Nil
                 /\ heapNext[leftPtr] = list0[Len(list0) - n + 1])

\* the lockstep loop has moved both pointers and has just exited
C13_Witness ==
    /\ op = "removeNthFromEnd" /\ pc = "rm_unlink"
    /\ 1 < n /\ n < Len(list0) - 1
    /\ leftPtr # currentPtr
    /\ Gap = n
    /\ heapNext[leftPtr] = list0[Len(list0) - n + 1]

----------------------------------------------------------------------------
(* Frame of removeNthFromEnd *)

\* the next link of node a once the sentinel is built: the caller's link, or
\* head for the sentinel
EntryNext(a) == IF a \in DOMAIN heap0.next THEN heap0.next[a] ELSE head

\* the nodes whose next link differs from what it was once the sentinel was built
Written == { a \in DOMAIN heapNext : heapNext[a] # EntryNext(a) }

\* the node to remove and its predecessor (the sentinel for the head)
Removed == list0[Len(list0) - n + 1]
Predecessor == IF n = Len(list0) THEN currentPtr ELSE list0[Len(list0) - n]

\* C14: a successful removal writes exactly one next link, that of the
\* removed node's predecessor (the sentinel when the head is removed), and
\* changes no value and no other link: the unlinked node keeps its own next
\* link, and when n equals the list length no node of the original chain is
\* modified and the old head still reaches the entire original list.
C14_OneLinkWritten ==
    (/\ op = "removeNthFromEnd"
     /\ 1 <= n /\ n <= Len(list0))
        => /\ (pc \in {"rm_lead", "rm_lockstep", "rm_unlink"} =>
                 (Written = {} /\ ValuesUntouched))
           /\ (pc = "done" =>
                 /\ Written = {Predecessor}
                 /\ heapNext[Predecessor] = heap0.next[Removed]
                 /\ heapNext[Removed] = heap0.next[Removed]
                 /\ ValuesUntouched
                 /\ (n = Len(list0) =>
                        (ListUntouched /\ ListOf(head, heapNext) = list0)))

\* an interior node that is not the last has been unlinked
C14_Witness ==
    /\ op = "removeNthFromEnd" /\ pc = "done"
    /\ 1 < n /\ n < Len(list0)
    /\ Written = {Predecessor}
    /\ heapNext[Removed] # Nil
    /\ Removed \notin { ListOf(retHead, heapNext)[k] :
                          k \in 1..Len(ListOf(retHead, heapNext)) }

----------------------------------------------------------------------------
(* Order of the triplets of threeSum *)

\* a precedes b lexicographically on the first two components
LexLess(a, b) == a[1] < b[1] \/ (a[1] = b[1] /\ a[2] < b[2])

\* C15: each triplet emitted by threeSum is in non-decreasing order (anchor
\* <= left value <= right value) and the emitted triplets appear in strictly
\* increasing lexicographic order: anchors are non-decreasing across the
\* result and, within one anchor, the second components strictly increase.
C15_TripletsOrdered ==
    op = "threeSum" =>
        /\ \A k \in 1..Len(result) :
              result[k][1] <= result[k][2] /\ result[k][2] <= result[k][3]
        /\ \A k \in 1 .. Len(result) - 1 :
              /\ result[k][1] <= result[k + 1][1]
              /\ LexLess(result[k], result[k + 1])

\* threeSum has returned three or more triplets, two of them with the same
\* anchor and two with different anchors
C15_Witness ==
    /\ op = "threeSum" /\ pc = "done"
    /\ Len(result) >= 3
    /\ \E k \in 1 .. Len(result) - 1 : result[k][1] = result[k + 1][1]
    /\ \E k \in 1 .. Len(result) - 1 : result[k][1] < result[k + 1][1]

----------------------------------------------------------------------------
(* Termination *)

\* what one step of a loop does to the loop's measure
Progress ==
    /\ (op = "threeSum" /\ pc = "ts_scan" /\ pc' = "ts_scan")
          => right' - left' < right - left
    /\ (op = "threeSum" /\ pc = "ts_scan" /\ pc' = "ts_skipl")
          => right' - left' = right - left
    /\ (op = "threeSum" /\ pc \in {"ts_skipl", "ts_skipr"})
          => right' - left' < right - left
    /\ (op = "threeSum" /\ pc = "ts_scan" /\ pc' = "ts_outer")
          => (left >= right /\ i' = i + 1)
    /\ (op = "threeSum" /\ pc = "ts_outer" /\ pc' = "ts_outer")
          => i' = i + 1
    /\ (op = "threeSum" /\ pc = "ts_outer" /\ pc' = "ts_scan")
          => i' = i
    /\ (op = "isPalindrome" /\ pc = "pal_loop" /\ pc' = "pal_loop")
          => right' - left' < right - left
    /\ (op = "removeNthFromEnd" /\ pc \in {"rm_lead", "rm_lockstep"} /\ pc' = pc)
          => /\ rightPtr' = heapNext[rightPtr]
             /\ Len(ListOf(rightPtr', heapNext')) = Len(ListOf(rightPtr, heapNext)) - 1

\* the budget of one anchor of threeSum
AnchorBudget == 2 * Len(nums) + 4

\* a bound on the number of steps the call can still take
Rank ==
    CASE pc = "ts_sort"     -> (Len(nums) + 2) * AnchorBudget
      [] pc = "ts_outer"    -> (Len(nums) - i + 1) * AnchorBudget
      [] pc = "ts_scan"     -> (Len(nums) - i) * AnchorBudget + 2 * (right - left) + 3
      [] pc = "ts_skipl"    -> (Len(nums) - i) * AnchorBudget + 2 * (right - left) + 2
      [] pc = "ts_skipr"    -> (Len(nums) - i) * AnchorBudget + 2 * (right - left) + 3
      [] pc = "rm_entry"    -> 2 * Cardinality(DOMAIN heapNext) + 10
      [] pc = "rm_lead"     -> Cardinality(DOMAIN heapNext) + Len(ListOf(rightPtr, heapNext)) + 2
      [] pc = "rm_lockstep" -> Len(ListOf(rightPtr, heapNext)) + 1
      [] pc = "rm_unlink"   -> 1
      [] pc = "pal_entry"   -> Len(s) + 3
      [] pc = "pal_loop"    -> (right - left) + 2
      [] OTHER              -> 0

\* C16: every call terminates on finite input: each step of the two-pointer
\* scan of threeSum, duplicate skips included, strictly decreases right -
\* left until left >= right, and the anchor index strictly increases; in
\* isPalindrome right - left strictly decreases at each iteration; in
\* removeNthFromEnd each loop step advances the lead pointer one node toward
\* the terminal.  Every step of a call strictly decreases the natural
\* number Rank, and the steps taken plus Rank never exceed StepBound, so the
\* call returns after at most StepBound steps.
C16_Terminates ==
    /\ [][Progress /\ (run' = run => Rank' < Rank)]_vars
    /\ [](Rank >= 0 /\ steps + Rank <= StepBound)

\* threeSum has returned after a scan that emitted a triplet and skipped
\* duplicates on both sides, having moved on to a further anchor
C16_Witness ==
    /\ op = "threeSum" /\ pc = "done"
    /\ i >= 2
    /\ result # <<>>
    /\ \E k \in 1 .. Len(nums) - 2 :
          nums[k] = nums[k + 1] /\ nums[k + 1] = nums[k + 2]

====
